---- MODULE Spec2Model ----
(***************************************************************************)
(* A state-machine model of imv's session controller (src/src/imv.c):      *)
(* argument parsing, the frame loop of imv_run, the event handler and the  *)
(* command handlers.  The navigator, the loader, the viewport and the      *)
(* command registry live in other translation units; they are modelled     *)
(* here from their documented contracts.                                   *)
(***************************************************************************)
EXTENDS Integers, Sequences, FiniteSets, TLC

VARIABLES
  pc,          \* position of the interactive thread
  argv,        \* the command line: options and positional arguments
  argi,        \* index of the next positional argument (imv_parse_args' i)
  data_from_stdin, \* imv_parse_args' local flag
  imv,         \* struct imv: the scalar session state
  nav,         \* struct imv_navigator
  loader,      \* struct imv_loader, shared with the decode thread
  view,        \* struct imv_viewport
  dt,          \* current_time - last_time of the running tick
  feed_left,   \* lines the writer of stdin may still produce
  n_events,    \* input events handled so far in Normal mode (quits apart)
  last,        \* the latest handle_event call of the running drain: the kind
               \* of event, and the lines it passed to imv_command_exec
  iwh,         \* imv_run's iw and ih: the dimensions of the current image
  stdin_reads, \* number of read_from_stdin calls
  stdout,      \* the lines written to the standard output
  tick         \* what the running tick has done so far: loads, renders,
               \* slideshow advances, the bitmap it got, the time it fed;
               \* and the line the feed handed over at the end of the last

vars == <<pc, argv, argi, data_from_stdin, imv, nav, loader, view, dt,
          feed_left, n_events, last, iwh, stdin_reads, stdout, tick>>

----------------------------------------------------------------------------
(* Bounds of the model.                                                    *)

\* input events handled outside command mode
MaxEvents == 1
\* characters typed into the command buffer
MaxBufLen == 2
\* lines the writer of stdin produces after start-up
MaxFeedLines == 1

(* Program constants.                                                      *)
SCALING_NONE == 0
SCALING_DOWN == 1
SCALING_FULL == 2
SCALING_MODE_COUNT == 3
command_buffer_len == 1024
MaxPlayDt == 100
DurationStep == 1000
WindowWidth == 1280
WindowHeight == 720

\* an absent value (a NULL pointer) and a present one
None == <<>>
Some(x) == <<x>>

\* the identifier that names image data read from stdin
Sentinel == "-"
\* lines the writer of stdin may produce ("" is an empty line)
FeedLines == {"b", ""}
\* tick durations in milliseconds
Dts == {0, 600, 1500}
\* a tick duration below the cap of imv_run, met while no slideshow runs
ShortDt == 40

Min(a, b) == IF a < b THEN a ELSE b

\* An unsigned long is held as the integer of least magnitude congruent to
\* it modulo 2^64: a value within reach of 0 as itself, and 2^64 - m as -m.
\* Sums and differences then wrap as the machine's do; the order of two
\* such values is that of the unsigned values.
ULongGe(a, b) ==
  \/ a < 0 /\ b >= 0
  \/ (a < 0 <=> b < 0) /\ a >= b

----------------------------------------------------------------------------
(* Characters, command lines, strtol.                                      *)

Digits == {"0", "1", "2", "3", "4", "5", "6", "7", "8", "9"}

DigitVal(c) ==
  CASE c = "0" -> 0 [] c = "1" -> 1 [] c = "2" -> 2 [] c = "3" -> 3
    [] c = "4" -> 4 [] c = "5" -> 5 [] c = "6" -> 6 [] c = "7" -> 7
    [] c = "8" -> 8 [] c = "9" -> 9

\* the value of the longest prefix of digits of s, continuing from acc
RECURSIVE DigitsPrefix(_, _)
DigitsPrefix(s, acc) ==
  IF s = <<>> \/ Head(s) \notin Digits THEN acc
  ELSE DigitsPrefix(Tail(s), 10 * acc + DigitVal(Head(s)))

\* strtol(s, NULL, 10): an optional sign, then digits up to the first other
\* character; 0 when there are no digits
strtol(s) ==
  IF s = <<>> THEN 0
  ELSE IF Head(s) = "-" THEN 0 - DigitsPrefix(Tail(s), 0)
  ELSE IF Head(s) = "+" THEN DigitsPrefix(Tail(s), 0)
  ELSE DigitsPrefix(s, 0)

\* imv_split_string(line, ' '): the maximal runs of non-space characters
RECURSIVE SplitFrom(_, _, _)
SplitFrom(line, cur, acc) ==
  IF line = <<>> THEN (IF cur = <<>> THEN acc ELSE Append(acc, cur))
  ELSE IF Head(line) = " "
       THEN SplitFrom(Tail(line), <<>>,
                      IF cur = <<>> THEN acc ELSE Append(acc, cur))
       ELSE SplitFrom(Tail(line), Append(cur, Head(line)), acc)

Split(line) == SplitFrom(line, <<>>, <<>>)

\* the command names and literal command lines of imv.c
W_quit == <<"q", "u", "i", "t">>
W_pan == <<"p", "a", "n">>
W_select_rel == <<"s", "e", "l", "e", "c", "t", "_", "r", "e", "l">>
W_select_abs == <<"s", "e", "l", "e", "c", "t", "_", "a", "b", "s">>
W_zoom == <<"z", "o", "o", "m">>
W_remove == <<"r", "e", "m", "o", "v", "e">>
W_fullscreen == <<"f", "u", "l", "l", "s", "c", "r", "e", "e", "n">>
W_overlay == <<"o", "v", "e", "r", "l", "a", "y">>
W_next == <<"n", "e", "x", "t">>
W_previous == <<"p", "r", "e", "v", "i", "o", "u", "s">>

L_select_rel_1 == W_select_rel \o <<" ", "1">>
L_select_rel_m1 == W_select_rel \o <<" ", "-", "1">>
L_pan_0_m50 == W_pan \o <<" ", "0", " ", "-", "5", "0">>
L_pan_0_50 == W_pan \o <<" ", "0", " ", "5", "0">>
L_pan_50_0 == W_pan \o <<" ", "5", "0", " ", "0">>
L_pan_m50_0 == W_pan \o <<" ", "-", "5", "0", " ", "0">>

----------------------------------------------------------------------------
(* The navigator (Source Cursor): an ordered list of identifiers, a        *)
(* current index, and the poll-and-clear latches "changed" and "wrapped".  *)

imv_navigator_create ==
  [paths |-> <<>>, cur |-> 0, changed |-> FALSE, wrapped |-> FALSE]

imv_navigator_length(n) == Len(n.paths)

\* the current identifier, or None on an empty list
imv_navigator_selection(n) ==
  IF n.paths = <<>> THEN None ELSE Some(n.paths[n.cur + 1])

\* appends; the index and the latch move only when the list was empty, where
\* the index goes from "empty" to the first element
imv_navigator_add(n, path) ==
  [n EXCEPT !.paths = Append(@, path),
            !.changed = @ \/ (n.paths = <<>>)]

\* moves the index by delta modulo the length; crossing either end latches
\* "wrapped", a different index latches "changed"; no-op on an empty list
imv_navigator_select_rel(n, delta) ==
  IF n.paths = <<>> THEN n
  ELSE LET len == Len(n.paths)
           raw == n.cur + delta
           new == raw % len
       IN  [n EXCEPT !.cur = new,
                     !.wrapped = @ \/ raw < 0 \/ raw >= len,
                     !.changed = @ \/ new # n.cur]

\* the 1-based position of the first occurrence of path, 0 when absent
imv_navigator_find_path(n, path) ==
  LET hits == {i \in 1..Len(n.paths) : n.paths[i] = path}
  IN  IF hits = {} THEN 0 ELSE CHOOSE i \in hits : \A j \in hits : i <= j

\* select_absolute: the index becomes `index` when that is a position of
\* the list, latching "changed" when it is another index
imv_navigator_select_str(n, index) ==
  IF index < 0 \/ index >= Len(n.paths) THEN n
  ELSE [n EXCEPT !.cur = index, !.changed = @ \/ index # n.cur]

\* removes the first occurrence; the index keeps its value when still in
\* range, else becomes the new last element; "changed" is latched when the
\* current identifier is another one (or none) afterwards
imv_navigator_remove(n, path) ==
  LET at == imv_navigator_find_path(n, path)
  IN  IF at = 0 THEN n
      ELSE LET rest == SubSeq(n.paths, 1, at - 1)
                         \o SubSeq(n.paths, at + 1, Len(n.paths))
               cur  == IF rest = <<>> THEN 0 ELSE Min(n.cur, Len(rest) - 1)
               same == rest # <<>> /\ rest[cur + 1] = n.paths[n.cur + 1]
           IN  [n EXCEPT !.paths = rest,
                         !.cur = cur,
                         !.changed = @ \/ ~same]

\* poll-and-clear
imv_navigator_poll_changed(n) == [n EXCEPT !.changed = FALSE]
imv_navigator_wrapped(n) == [n EXCEPT !.wrapped = FALSE]

----------------------------------------------------------------------------
(* The loader (Decode Pipeline): one request slot in, one bitmap slot and  *)
(* one error slot out.                                                     *)

imv_loader_create ==
  [req |-> None, bmp |-> None, err |-> None, anim |-> FALSE, dims |-> <<0, 0>>]

\* a new request supersedes every result not yet delivered
imv_loader_load(l, path, data, len) ==
  [req  |-> Some([path |-> path, data |-> data, len |-> len]),
   bmp  |-> None,
   err  |-> None,
   anim |-> FALSE,
   dims |-> <<0, 0>>]

imv_loader_get_error(l) == [l EXCEPT !.err = None]
imv_loader_get_image(l) == [l EXCEPT !.bmp = None]

\* elapsed time makes the next frame of an animation available
imv_loader_time_passed(l, delta) ==
  IF l.anim /\ delta > 0 /\ l.bmp = None
  THEN [l EXCEPT !.bmp = Some([is_new_image |-> FALSE, dims |-> l.dims])]
  ELSE l

\* a forced single-frame step
imv_loader_load_next_frame(l) ==
  IF l.anim /\ l.bmp = None
  THEN [l EXCEPT !.bmp = Some([is_new_image |-> FALSE, dims |-> l.dims])]
  ELSE l

----------------------------------------------------------------------------
(* The viewport: pan offset relative to the centred position, the fit it   *)
(* was last scaled to and the zoom steps applied since, playing, redraw.   *)

imv_viewport_create ==
  [x |-> 0, y |-> 0, fit |-> "window", zoom |-> 0,
   playing |-> TRUE, redraw |-> TRUE, fullscreen |-> FALSE]

imv_viewport_scale_to_window(v) ==
  [v EXCEPT !.fit = "window", !.zoom = 0, !.x = 0, !.y = 0, !.redraw = TRUE]

imv_viewport_scale_to_actual(v) ==
  [v EXCEPT !.fit = "actual", !.zoom = 0, !.x = 0, !.y = 0, !.redraw = TRUE]

imv_viewport_zoom(v, amount) ==
  [v EXCEPT !.zoom = @ + amount, !.redraw = TRUE]

imv_viewport_move(v, dx, dy) ==
  [v EXCEPT !.x = @ + dx, !.y = @ + dy, !.redraw = TRUE]

imv_viewport_center(v) == [v EXCEPT !.x = 0, !.y = 0, !.redraw = TRUE]

imv_viewport_toggle_fullscreen(v) == [v EXCEPT !.fullscreen = ~@]

imv_viewport_toggle_playing(v) == [v EXCEPT !.playing = ~@]

imv_viewport_update(v) == [v EXCEPT !.redraw = TRUE]

\* poll-and-clear
imv_viewport_needs_redraw(v) == [v EXCEPT !.redraw = FALSE]

----------------------------------------------------------------------------
(* The session as the handlers see it: struct imv and what it points to.   *)
(* A handler yields the set of sessions it may leave behind; `crashed`     *)
(* marks the process killed by undefined behaviour, `execs` collects the   *)
(* lines passed to imv_command_exec.                                       *)

Session ==
  [imv |-> imv, nav |-> nav, view |-> view, loader |-> loader,
   crashed |-> FALSE, execs |-> <<>>, out |-> <<>>]

Crash(S) == [S EXCEPT !.crashed = TRUE]

command_quit(args, S) == {[S EXCEPT !.imv.quit = TRUE]}

command_pan(args, S) ==
  IF Len(args) # 3 THEN {S}
  ELSE {[S EXCEPT !.view =
           imv_viewport_move(@, strtol(args[2]), strtol(args[3]))]}

command_select_rel(args, S) ==
  IF Len(args) # 2 THEN {S}
  ELSE {[S EXCEPT !.nav = imv_navigator_select_rel(@, strtol(args[2])),
                  !.imv.slideshow_time_elapsed = 0]}

command_select_abs(args, S) == {S}

command_zoom(args, S) == {S}

\* strdup(NULL) on an empty navigator is undefined: the process dies in
\* strlen, or strdup yields a pointer that matches no path
command_remove(args, S) ==
  LET sel == imv_navigator_selection(S.nav)
  IN  IF sel = None
      THEN {Crash(S), [S EXCEPT !.imv.slideshow_time_elapsed = 0]}
      ELSE {[S EXCEPT !.nav = imv_navigator_remove(@, sel[1]),
                      !.imv.slideshow_time_elapsed = 0]}

command_fullscreen(args, S) ==
  {[S EXCEPT !.view = imv_viewport_toggle_fullscreen(@)]}

command_overlay(args, S) ==
  {[S EXCEPT !.imv.overlay_enabled = ~@, !.imv.need_redraw = TRUE]}

\* the handlers imv_create registers
Handler(args, S) ==
  CASE args[1] = W_quit       -> command_quit(args, S)
    [] args[1] = W_pan        -> command_pan(args, S)
    [] args[1] = W_select_rel -> command_select_rel(args, S)
    [] args[1] = W_select_abs -> command_select_abs(args, S)
    [] args[1] = W_zoom       -> command_zoom(args, S)
    [] args[1] = W_remove     -> command_remove(args, S)
    [] args[1] = W_fullscreen -> command_fullscreen(args, S)
    [] args[1] = W_overlay    -> command_overlay(args, S)
    [] OTHER                  -> {S}

\* the aliases imv_create registers
Alias(name) ==
  CASE name = <<"q">>     -> Some(W_quit)
    [] name = W_next      -> Some(L_select_rel_1)
    [] name = W_previous  -> Some(L_select_rel_m1)
    [] name = <<"n">>     -> Some(L_select_rel_1)
    [] name = <<"p">>     -> Some(L_select_rel_m1)
    [] OTHER              -> None

\* splits the line on blanks; an alias is replaced by the tokens of its
\* expansion, followed by the arguments given (one level only); then the
\* handler registered under token 0 runs, and an unknown name does nothing
imv_command_exec(S, line) ==
  LET S1 == [S EXCEPT !.execs = Append(@, line)]
      tokens == Split(line)
  IN  IF tokens = <<>> THEN {S1}
      ELSE LET alias == Alias(tokens[1])
               args  == IF alias = None THEN tokens
                        ELSE Split(alias[1]) \o Tail(tokens)
           IN  Handler(args, S1)

----------------------------------------------------------------------------
(* Input events.                                                           *)

Event(type) ==
  [type |-> type, sym |-> "", mods |-> {}, repeat |-> FALSE, text |-> <<>>,
   wheel_y |-> 0, lmask |-> FALSE, xrel |-> 0, yrel |-> 0]

\* keys handle_event binds outside command mode, the three keys of command
\* mode, and a key it binds nowhere
BoundKeys ==
  {"SEMICOLON", "q", "LEFTBRACKET", "LEFT", "RIGHTBRACKET", "RIGHT",
   "EQUALS", "PLUS", "i", "UP", "MINUS", "o", "DOWN", "s", "r", "a", "c",
   "j", "k", "h", "l", "x", "f", "PERIOD", "SPACE", "p", "d", "t"}
EntryKeys == {"ESCAPE", "RETURN", "BACKSPACE"}
Keys == BoundKeys \cup EntryKeys \cup {"z"}

Mods == {{}, {"SHIFT"}, {"CAPS"}}

KeyEvents ==
  {[Event("KEYDOWN") EXCEPT !.sym = k, !.mods = m, !.repeat = r] :
     k \in Keys, m \in Mods, r \in BOOLEAN}

\* the texts SDL delivers while text input is active
Texts == {<<"n">>}

TextEvents == {[Event("TEXTINPUT") EXCEPT !.text = t] : t \in Texts}

OtherEvents ==
  {Event("QUIT"), Event("WINDOWEVENT"), Event("OTHER")}
  \cup {[Event("MOUSEWHEEL") EXCEPT !.wheel_y = y] : y \in {-1, 1}}
  \cup {[Event("MOUSEMOTION") EXCEPT !.lmask = b, !.xrel = 10] :
          b \in BOOLEAN}

Events == KeyEvents \cup TextEvents \cup OtherEvents

\* the events that arrive outside command mode: the keys and window events
\* whose effect the frame loop reads
LoopKeys ==
  {"SEMICOLON", "q", "LEFT", "RIGHT", "x", "SPACE", "PERIOD", "s", "t", "p",
   "z"}
LoopEvents ==
  {e \in KeyEvents : e.sym \in LoopKeys}
  \cup {Event("QUIT"), Event("WINDOWEVENT"), Event("OTHER"),
        [Event("MOUSEWHEEL") EXCEPT !.wheel_y = 1]}

\* strncat(input_buffer, text, command_buffer_len - 1): at most 1023
\* characters of text are appended, whatever the buffer already holds;
\* writing past the 1024 bytes allocated is undefined
handle_textinput(S, e) ==
  IF S.imv.input_buffer = None THEN {Crash(S)}
  ELSE LET buf == S.imv.input_buffer[1]
           add == SubSeq(e.text, 1, Min(Len(e.text), command_buffer_len - 1))
           new == [S EXCEPT !.imv.input_buffer = Some(buf \o add),
                            !.imv.need_redraw = TRUE]
       IN  IF Len(buf) + Len(add) + 1 > command_buffer_len
           THEN {Crash(S), new}
           ELSE {new}

\* SDL_KEYDOWN while a command buffer exists
handle_key_entry(S, e) ==
  CASE e.sym = "ESCAPE" ->
         {[S EXCEPT !.imv.text_input = FALSE,
                    !.imv.input_buffer = None,
                    !.imv.need_redraw = TRUE]}
    [] e.sym = "RETURN" ->
         {IF T.crashed THEN T
          ELSE [T EXCEPT !.imv.text_input = FALSE,
                         !.imv.input_buffer = None,
                         !.imv.need_redraw = TRUE] :
            T \in imv_command_exec(S, S.imv.input_buffer[1])}
    [] e.sym = "BACKSPACE" ->
         LET buf == S.imv.input_buffer[1]
         IN  IF Len(buf) > 0
             THEN {[S EXCEPT !.imv.input_buffer =
                               Some(SubSeq(buf, 1, Len(buf) - 1)),
                             !.imv.need_redraw = TRUE]}
             ELSE {S}
    [] OTHER -> {S}

\* SDL_KEYDOWN outside command mode: the key bindings
handle_key_normal(S, e) ==
  CASE e.sym = "SEMICOLON" ->
         IF "SHIFT" \in e.mods
         THEN {[S EXCEPT !.imv.text_input = TRUE,
                         !.imv.input_buffer = Some(<<>>),
                         !.imv.need_redraw = TRUE]}
         ELSE {S}
    [] e.sym = "q" ->
         imv_command_exec([S EXCEPT !.imv.quit = TRUE], W_quit)
    [] e.sym \in {"LEFTBRACKET", "LEFT"} ->
         imv_command_exec(S, L_select_rel_m1)
    [] e.sym \in {"RIGHTBRACKET", "RIGHT"} ->
         imv_command_exec(S, L_select_rel_1)
    [] e.sym \in {"EQUALS", "PLUS", "i", "UP"} ->
         {[S EXCEPT !.view = imv_viewport_zoom(@, 1)]}
    [] e.sym \in {"MINUS", "o", "DOWN"} ->
         {[S EXCEPT !.view = imv_viewport_zoom(@, -1)]}
    [] e.sym = "s" ->
         IF ~e.repeat
         THEN {[S EXCEPT !.imv.scaling_mode = (@ + 1) % SCALING_MODE_COUNT,
                         !.imv.need_rescale = TRUE,
                         !.imv.need_redraw = TRUE]}
         ELSE {S}
    [] e.sym = "r" ->
         IF ~e.repeat
         THEN {[S EXCEPT !.imv.need_rescale = TRUE,
                         !.imv.need_redraw = TRUE]}
         ELSE {S}
    [] e.sym = "a" ->
         IF ~e.repeat
         THEN {[S EXCEPT !.view = imv_viewport_scale_to_actual(@)]}
         ELSE {S}
    [] e.sym = "c" ->
         IF ~e.repeat
         THEN {[S EXCEPT !.view = imv_viewport_center(@)]}
         ELSE {S}
    [] e.sym = "j" -> imv_command_exec(S, L_pan_0_m50)
    [] e.sym = "k" -> imv_command_exec(S, L_pan_0_50)
    [] e.sym = "h" -> imv_command_exec(S, L_pan_50_0)
    [] e.sym = "l" -> imv_command_exec(S, L_pan_m50_0)
    [] e.sym = "x" ->
         IF ~e.repeat THEN imv_command_exec(S, W_remove) ELSE {S}
    [] e.sym = "f" ->
         IF ~e.repeat THEN imv_command_exec(S, W_fullscreen) ELSE {S}
    [] e.sym = "PERIOD" ->
         {[S EXCEPT !.loader = imv_loader_load_next_frame(@)]}
    [] e.sym = "SPACE" ->
         IF ~e.repeat
         THEN {[S EXCEPT !.view = imv_viewport_toggle_playing(@)]}
         ELSE {S}
    [] e.sym = "p" ->
         \* puts(NULL) on an empty navigator is undefined
         IF e.repeat THEN {S}
         ELSE IF imv_navigator_selection(S.nav) = None
         THEN {Crash(S), S}
         ELSE {[S EXCEPT !.out = Append(@, imv_navigator_selection(S.nav)[1])]}
    [] e.sym = "d" ->
         IF ~e.repeat THEN imv_command_exec(S, W_overlay) ELSE {S}
    [] e.sym = "t" ->
         IF e.mods \cap {"SHIFT", "CAPS"} # {}
         THEN {[S EXCEPT !.imv.slideshow_image_duration =
                           IF ULongGe(@, DurationStep) THEN @ - DurationStep
                           ELSE @,
                         !.imv.need_redraw = TRUE]}
         ELSE {[S EXCEPT !.imv.slideshow_image_duration = @ + DurationStep,
                         !.imv.need_redraw = TRUE]}
    [] OTHER -> {S}

\* handle_keydown without the test for a command buffer
handle_keydown_unguarded(S, e) == handle_key_normal(S, e)

handle_keydown(S, e) ==
  IF S.imv.input_buffer # None
  THEN handle_key_entry(S, e)
  ELSE handle_key_normal(S, e)

handle_event(S, e) ==
  CASE e.type = "QUIT" -> imv_command_exec(S, W_quit)
    [] e.type = "TEXTINPUT" -> handle_textinput(S, e)
    [] e.type = "KEYDOWN" -> handle_keydown(S, e)
    [] e.type = "MOUSEWHEEL" ->
         {[S EXCEPT !.view = imv_viewport_zoom(@, e.wheel_y)]}
    [] e.type = "MOUSEMOTION" ->
         IF e.lmask
         THEN {[S EXCEPT !.view = imv_viewport_move(@, e.xrel, e.yrel)]}
         ELSE {S}
    [] e.type = "WINDOWEVENT" ->
         {[S EXCEPT !.view = imv_viewport_update(@)]}
    [] OTHER -> {S}

\* the events delivered in command mode: text, the keys of command mode, a
\* key bound outside command mode and an unbound key
EntryEvents ==
  {e \in KeyEvents :
     e.sym \in EntryKeys \cup {"q", "z"} /\ e.mods = {} /\ ~e.repeat}
    \cup TextEvents

----------------------------------------------------------------------------
(* Start-up: imv_create, imv_parse_args, the head of imv_run.              *)

\* the dimensions the decoder finds for an identifier: smaller than the
\* window, narrower but taller than it, or of its size
ImageDims(path) ==
  CASE path = "a" -> <<640, 480>>
    [] path = "b" -> <<640, 1080>>
    [] OTHER      -> <<WindowWidth, WindowHeight>>

imv_create ==
  [quit |-> FALSE,
   overlay_enabled |-> FALSE,
   need_redraw |-> TRUE,
   need_rescale |-> TRUE,
   scaling_mode |-> SCALING_FULL,
   cycle_input |-> TRUE,
   list_at_exit |-> FALSE,
   starting_path |-> None,
   paths_from_stdin |-> FALSE,
   slideshow_image_duration |-> 0,
   slideshow_time_elapsed |-> 0,
   stdin_image_data |-> None,
   stdin_image_data_len |-> 0,
   input_buffer |-> None,
   text_input |-> TRUE]

\* a command line: -h, -x, the interval in milliseconds that -t yields, and
\* the paths; without -l and -n, and with the scaling mode of imv_create
Args(h, x, t, paths) ==
  [h |-> h, x |-> x, t |-> t, paths |-> paths,
   l |-> FALSE, scaling |-> SCALING_FULL, n |-> None]

\* the command line a with -l (when l) and with the scaling mode that the
\* last of -a, -s and -S leaves
WithOptions(a, l, scaling) == [a EXCEPT !.l = l, !.scaling = scaling]

\* the command line a with -n start, start being the characters of a path
\* or of a number
WithStart(a, start) == [a EXCEPT !.n = Some(start)]

\* the interval of -t 18446744073709550.616: 2^64 - 1000 ms
NearMaxInterval == 0 - DurationStep

\* the command lines the session is started with
CommandLines ==
  {Args(TRUE, FALSE, 0, <<>>),
   WithOptions(Args(FALSE, FALSE, 0, <<>>), TRUE, SCALING_DOWN),
   WithOptions(Args(FALSE, FALSE, 500, <<"a">>), TRUE, SCALING_DOWN),
   Args(FALSE, FALSE, 0, <<Sentinel>>),
   WithOptions(Args(FALSE, FALSE, 0, <<"a", Sentinel>>), FALSE, SCALING_DOWN),
   Args(FALSE, FALSE, 0, <<Sentinel, Sentinel>>),
   WithOptions(Args(FALSE, TRUE, 2000, <<"a", "a">>), TRUE, SCALING_FULL),
   Args(FALSE, FALSE, NearMaxInterval, <<"a">>),
   WithStart(Args(FALSE, FALSE, 0, <<"a", "b">>), <<"2">>)}

NewTick ==
  [loads |-> 0, renders |-> 0, advances |-> 0, got |-> "none", fed |-> None,
   line |-> None]

NoEvent == [kind |-> "none", execs |-> <<>>]

\* the kind of an event, as handle_event tells them apart
EventKind(e) ==
  IF e.type # "KEYDOWN" THEN e.type
  ELSE IF imv.input_buffer = None THEN "KEY"
  ELSE IF e.sym \in EntryKeys THEN e.sym
  ELSE IF e.sym \in BoundKeys THEN "ENTRY_BOUND_KEY"
  ELSE "ENTRY_OTHER_KEY"

Init ==
  /\ pc = "parse_opts"
  /\ argv \in CommandLines
  /\ argi = 1
  /\ data_from_stdin = FALSE
  /\ imv = imv_create
  /\ nav = imv_navigator_create
  /\ loader = imv_loader_create
  /\ view = imv_viewport_create
  /\ dt = 0
  /\ feed_left = MaxFeedLines
  /\ n_events = 0
  /\ last = NoEvent
  /\ iwh = <<0, 0>>
  /\ stdin_reads = 0
  /\ stdout = <<>>
  /\ tick = NewTick

\* a path added without the latch being touched
imv_add_path_unlatched(n, path) ==
  [imv_navigator_add(n, path) EXCEPT !.changed = n.changed]

imv_add_path(n, path) == imv_navigator_add(n, path)

\* the getopt loop (the options -h, -a, -s, -S, -x, -l and -t) and the test
\* for no paths
ParseOptions ==
  /\ pc = "parse_opts"
  /\ IF argv.h
     THEN /\ imv' = [imv EXCEPT !.quit = TRUE]
          /\ pc' = "run"
     ELSE /\ imv' = [imv EXCEPT
                       !.scaling_mode = argv.scaling,
                       !.cycle_input = IF argv.x THEN FALSE ELSE @,
                       !.list_at_exit = IF argv.l THEN TRUE ELSE @,
                       !.starting_path = argv.n,
                       !.slideshow_image_duration = argv.t,
                       !.paths_from_stdin = (argv.paths = <<>>)]
          /\ pc' = IF argv.paths = <<>> THEN "parse_stdin"
                   ELSE "parse_paths"
  /\ UNCHANGED <<argv, argi, data_from_stdin, nav, loader, view, dt,
                 feed_left, n_events, last, iwh, stdin_reads, stdout, tick>>

\* a turn of the loop over the paths that does not remember an earlier "-"
ParseArg_rereads(arg) ==
  LET sentinel == (arg = Sentinel)
      refused  == sentinel /\ imv.paths_from_stdin
      reads    == sentinel /\ ~refused
  IN  [refused |-> refused,
       data_from_stdin |-> data_from_stdin \/ reads,
       stdin_reads |-> IF reads THEN stdin_reads + 1 ELSE stdin_reads,
       imv |-> IF reads
               THEN [imv EXCEPT !.stdin_image_data = Some("bytes"),
                                !.stdin_image_data_len = 1]
               ELSE imv,
       nav |-> IF refused THEN nav ELSE imv_add_path(nav, arg)]

\* what one turn of the loop over the paths does with argv[i]: the
\* session, the local flag, the number of reads of stdin, and whether the
\* argument was refused
ParseArg(arg) ==
  LET sentinel == (arg = Sentinel)
      refused  == sentinel /\ (imv.paths_from_stdin \/ data_from_stdin)
      reads    == sentinel /\ ~refused
  IN  [refused |-> refused,
       data_from_stdin |-> data_from_stdin \/ reads,
       stdin_reads |-> IF reads THEN stdin_reads + 1 ELSE stdin_reads,
       imv |-> IF reads
               THEN [imv EXCEPT !.stdin_image_data = Some("bytes"),
                                !.stdin_image_data_len = 1]
               ELSE imv,
       nav |-> IF refused THEN nav ELSE imv_add_path(nav, arg)]

ParsePath ==
  /\ pc = "parse_paths"
  /\ LET r == ParseArg(argv.paths[argi])
     IN  /\ imv' = r.imv
         /\ nav' = r.nav
         /\ data_from_stdin' = r.data_from_stdin
         /\ stdin_reads' = r.stdin_reads
         /\ argi' = IF r.refused THEN argi ELSE argi + 1
         /\ pc' = IF r.refused THEN "rejected"
                  ELSE IF argi < Len(argv.paths) THEN "parse_paths"
                  ELSE IF imv.paths_from_stdin THEN "parse_stdin"
                  ELSE "run"
  /\ UNCHANGED <<argv, loader, view, dt, feed_left, n_events, last,
                 iwh, stdout, tick>>

\* the blocking fgets loop: a line of stdin, or its end
ParseStdin ==
  /\ pc = "parse_stdin"
  /\ \/ \E line \in FeedLines :
          /\ nav' = IF line # "" THEN imv_add_path(nav, line) ELSE nav
          /\ pc' = IF line # "" THEN "run" ELSE "parse_stdin"
     \/ /\ pc' = "rejected"
        /\ nav' = nav
  /\ UNCHANGED <<argv, argi, data_from_stdin, imv, loader, view, dt,
                 feed_left, n_events, last, iwh, stdin_reads, stdout, tick>>

\* the 0-based index imv_run finds for starting_path, -1 for none: the
\* position of the path, else the number it starts with less one; errno is
\* read without having been cleared, and `einval` tells whether it holds
\* EINVAL then
StartingIndex(n, start, einval) ==
  LET found == imv_navigator_find_path(n, IF Len(start) = 1 THEN start[1]
                                          ELSE "")
  IN  IF found # 0 THEN found - 1
      ELSE IF einval THEN 0 - 1
      ELSE strtol(start) - 1

\* the navigator after the selection of the starting image
SelectStart(n, start, einval) ==
  IF StartingIndex(n, start, einval) >= 0
  THEN imv_navigator_select_str(n, StartingIndex(n, start, einval))
  ELSE n

\* imv_run up to the loop: setup_window succeeds or fails; on success text
\* input is stopped and the starting image is selected
RunStart ==
  /\ pc = "run"
  /\ \/ /\ imv.quit
        /\ pc' = "done"
        /\ UNCHANGED <<imv, nav>>
     \/ /\ ~imv.quit
        /\ pc' = "failed"
        /\ UNCHANGED <<imv, nav>>
     \/ /\ ~imv.quit
        /\ pc' = "events"
        /\ imv' = [imv EXCEPT !.text_input = FALSE]
        /\ IF imv.starting_path = None THEN nav' = nav
           ELSE \E einval \in BOOLEAN :
                  nav' = SelectStart(nav, imv.starting_path[1], einval)
  /\ UNCHANGED <<argv, argi, data_from_stdin, loader, view, dt,
                 feed_left, n_events, last, iwh, stdin_reads, stdout, tick>>

----------------------------------------------------------------------------
(* The frame loop of imv_run, one action per step.                         *)

\* SDL_PollEvent hands over an event and handle_event runs.  Text arrives
\* only while SDL's text input is active.  MaxEvents bounds the events of
\* Normal mode other than the 'q' key and the closing of the window, and
\* `typed` the characters the buffer holds after text has arrived.
PollEventTyping(e, typed) ==
  /\ pc = "events"
  /\ ~imv.quit
  /\ LET free == \/ e.type \in {"TEXTINPUT", "QUIT"}
                 \/ e.type = "KEYDOWN" /\ imv.input_buffer # None
                 \/ e.type = "KEYDOWN" /\ e.sym = "q"
     IN  /\ e.type = "TEXTINPUT" =>
              /\ imv.text_input
              /\ imv.input_buffer # None =>
                   Len(imv.input_buffer[1]) + Len(e.text) <= typed
         /\ ~free => n_events < MaxEvents
         /\ n_events' = IF free THEN n_events ELSE n_events + 1
  /\ \E T \in handle_event(Session, e) :
       /\ imv' = T.imv
       /\ nav' = T.nav
       /\ view' = T.view
       /\ loader' = T.loader
       /\ stdout' = stdout \o T.out
       /\ last' = [kind |-> EventKind(e), execs |-> T.execs]
       /\ pc' = IF T.crashed THEN "crashed" ELSE "events"
  /\ UNCHANGED <<argv, argi, data_from_stdin, dt, feed_left, iwh,
                 stdin_reads, tick>>

\* the event drain with the typed text held to MaxBufLen characters
PollEvent(e) == PollEventTyping(e, MaxBufLen)

\* the loop going on to the rest of the tick although a quit was triggered
EventsDone_no_break ==
  /\ pc = "events"
  /\ pc' = "errors"
  /\ last' = NoEvent
  /\ UNCHANGED <<argv, argi, data_from_stdin, imv, nav, loader, view, dt,
                 feed_left, n_events, iwh, stdin_reads, stdout, tick>>

\* the event queue is empty, or a quit was triggered
EventsDone ==
  /\ pc = "events"
  /\ pc' = IF imv.quit THEN "exit" ELSE "errors"
  /\ last' = NoEvent
  /\ UNCHANGED <<argv, argi, data_from_stdin, imv, nav, loader, view, dt,
                 feed_left, n_events, iwh, stdin_reads, stdout, tick>>

\* the error step releasing the image data whatever the failed path is
EvictFailed_any_path(err_path) ==
  [nav |-> imv_navigator_remove(nav, err_path),
   imv |-> IF imv.stdin_image_data # None
           THEN [imv EXCEPT !.stdin_image_data = None,
                            !.stdin_image_data_len = 0]
           ELSE imv]

\* what the error step leaves of the session when the loader reports a
\* failure for err_path
EvictFailed(err_path) ==
  [nav |-> imv_navigator_remove(nav, err_path),
   imv |-> IF err_path = Sentinel /\ imv.stdin_image_data # None
           THEN [imv EXCEPT !.stdin_image_data = None,
                            !.stdin_image_data_len = 0]
           ELSE imv]

GetError ==
  /\ pc = "errors"
  /\ loader' = imv_loader_get_error(loader)
  /\ IF loader.err # None
     THEN /\ nav' = EvictFailed(loader.err[1]).nav
          /\ imv' = EvictFailed(loader.err[1]).imv
     ELSE UNCHANGED <<nav, imv>>
  /\ pc' = "wrap"
  /\ UNCHANGED <<argv, argi, data_from_stdin, view, dt, feed_left,
                 n_events, last, iwh, stdin_reads, stdout, tick>>

\* whether the wrap check polls the latch, and whether it leaves the loop
WrapPolled == ~imv.cycle_input
\* the wrap check leaving the loop whether or not cycling is enabled
WrapBreaks_any_mode == nav.wrapped
WrapBreaks == ~imv.cycle_input /\ nav.wrapped

CheckWrapped ==
  /\ pc = "wrap"
  /\ nav' = IF WrapPolled THEN imv_navigator_wrapped(nav) ELSE nav
  /\ pc' = IF WrapBreaks THEN "exit" ELSE "changed"
  /\ UNCHANGED <<argv, argi, data_from_stdin, imv, loader, view, dt,
                 feed_left, n_events, last, iwh, stdin_reads, stdout, tick>>

\* the quit flag after the changed latch was found set on an empty list
ExhaustedQuit == IF ~imv.paths_from_stdin THEN TRUE ELSE imv.quit

\* the step loading the selection in every tick, changed or not
PollChanged_every_tick ==
  /\ pc = "changed"
  /\ nav' = imv_navigator_poll_changed(nav)
  /\ IF imv_navigator_selection(nav) = None
     THEN /\ pc' = "image"
          /\ UNCHANGED <<imv, loader, view, tick>>
     ELSE /\ loader' = imv_loader_load(loader,
                         imv_navigator_selection(nav)[1],
                         imv.stdin_image_data, imv.stdin_image_data_len)
          /\ view' = [view EXCEPT !.playing = TRUE]
          /\ tick' = [tick EXCEPT !.loads = @ + 1]
          /\ pc' = "image"
          /\ imv' = imv
  /\ UNCHANGED <<argv, argi, data_from_stdin, dt, feed_left, n_events,
                 last, iwh, stdin_reads, stdout>>

\* the changed step: the latch is polled, and a selection that changed is
\* loaded
PollChanged ==
  /\ pc = "changed"
  /\ nav' = imv_navigator_poll_changed(nav)
  /\ IF ~nav.changed
     THEN /\ pc' = "image"
          /\ UNCHANGED <<imv, loader, view, tick>>
     ELSE IF imv_navigator_selection(nav) = None
     THEN /\ imv' = [imv EXCEPT !.quit = ExhaustedQuit]
          /\ pc' = "events"
          /\ tick' = NewTick
          /\ UNCHANGED <<loader, view>>
     ELSE /\ loader' = imv_loader_load(loader,
                         imv_navigator_selection(nav)[1],
                         imv.stdin_image_data, imv.stdin_image_data_len)
          /\ view' = [view EXCEPT !.playing = TRUE]
          /\ tick' = [tick EXCEPT !.loads = @ + 1]
          /\ pc' = "image"
          /\ imv' = imv
  /\ UNCHANGED <<argv, argi, data_from_stdin, dt, feed_left, n_events,
                 last, iwh, stdin_reads, stdout>>

\* the image step fitting the viewport anew for every bitmap
GetImage_always_rescales ==
  /\ pc = "image"
  /\ loader' = imv_loader_get_image(loader)
  /\ IF loader.bmp # None
     THEN /\ iwh' = loader.bmp[1].dims
          /\ imv' = [imv EXCEPT !.need_redraw = TRUE, !.need_rescale = TRUE]
          /\ tick' = [tick EXCEPT !.got = IF loader.bmp[1].is_new_image
                                          THEN "new" ELSE "frame"]
     ELSE UNCHANGED <<iwh, imv, tick>>
  /\ pc' = "rescale"
  /\ UNCHANGED <<argv, argi, data_from_stdin, nav, view, dt, feed_left,
                 n_events, last, stdin_reads, stdout>>

\* the image step: a bitmap the loader holds is taken over
GetImage ==
  /\ pc = "image"
  /\ loader' = imv_loader_get_image(loader)
  /\ IF loader.bmp # None
     THEN /\ iwh' = loader.bmp[1].dims
          /\ imv' = [imv EXCEPT
                       !.need_redraw = TRUE,
                       !.need_rescale = @ \/ loader.bmp[1].is_new_image]
          /\ tick' = [tick EXCEPT !.got = IF loader.bmp[1].is_new_image
                                          THEN "new" ELSE "frame"]
     ELSE UNCHANGED <<iwh, imv, tick>>
  /\ pc' = "rescale"
  /\ UNCHANGED <<argv, argi, data_from_stdin, nav, view, dt, feed_left,
                 n_events, last, stdin_reads, stdout>>

\* the test with one dimension of the window larger being enough
RescaleToActual_either ==
  \/ imv.scaling_mode = SCALING_NONE
  \/ /\ imv.scaling_mode = SCALING_DOWN
     /\ (WindowWidth > iwh[1] \/ WindowHeight > iwh[2])

\* the fit the rescale step applies
RescaleToActual ==
  \/ imv.scaling_mode = SCALING_NONE
  \/ /\ imv.scaling_mode = SCALING_DOWN
     /\ WindowWidth > iwh[1]
     /\ WindowHeight > iwh[2]

Rescale ==
  /\ pc = "rescale"
  /\ IF imv.need_rescale
     THEN /\ imv' = [imv EXCEPT !.need_rescale = FALSE]
          /\ view' = IF RescaleToActual
                     THEN imv_viewport_scale_to_actual(view)
                     ELSE imv_viewport_scale_to_window(view)
     ELSE UNCHANGED <<imv, view>>
  /\ pc' = "time"
  /\ UNCHANGED <<argv, argi, data_from_stdin, nav, loader, dt, feed_left,
                 n_events, last, iwh, stdin_reads, stdout, tick>>

\* the whole of the tick handed to the loader
PlayDt_uncapped(d) == d

\* the time handed to the loader for a tick of d milliseconds (the loader
\* takes it in seconds, dt / 1000.0)
PlayDt(d) == IF d > MaxPlayDt THEN MaxPlayDt ELSE d

\* the values SDL_GetTicks() - last_time takes; under an interval near
\* 2^64 ms, which no elapsed time reaches, ticks of 0 ms
TickDts ==
  IF imv.slideshow_image_duration = 0 THEN Dts \cup {ShortDt}
  ELSE IF imv.slideshow_image_duration < 0 THEN {0}
  ELSE Dts

TimePassed ==
  /\ pc = "time"
  /\ \E d \in TickDts :
       /\ dt' = d
       /\ IF view.playing
          THEN /\ loader' = imv_loader_time_passed(loader, PlayDt(d))
               /\ tick' = [tick EXCEPT !.fed = Some(PlayDt(d))]
          ELSE UNCHANGED <<loader, tick>>
  /\ pc' = "slideshow"
  /\ UNCHANGED <<argv, argi, data_from_stdin, imv, nav, view, feed_left,
                 n_events, last, iwh, stdin_reads, stdout>>

\* the slideshow step waiting until the interval is exceeded
SlideshowDue_exceeded(elapsed, duration) == elapsed > duration

\* the slideshow step's verdict on the accumulated time
SlideshowDue(elapsed, duration) == ULongGe(elapsed, duration)

\* the slideshow step moving on without starting the count anew
Slideshow_keeps_elapsed ==
  /\ pc = "slideshow"
  /\ IF imv.slideshow_image_duration # 0
     THEN LET elapsed == imv.slideshow_time_elapsed + dt
              due == SlideshowDue(elapsed, imv.slideshow_image_duration)
          IN  /\ imv' = [imv EXCEPT
                           !.need_redraw = TRUE,
                           !.slideshow_time_elapsed = elapsed]
              /\ nav' = IF due THEN imv_navigator_select_rel(nav, 1)
                        ELSE nav
              /\ tick' = IF due THEN [tick EXCEPT !.advances = @ + 1]
                         ELSE tick
     ELSE UNCHANGED <<imv, nav, tick>>
  /\ dt' = 0
  /\ pc' = "render"
  /\ UNCHANGED <<argv, argi, data_from_stdin, loader, view, feed_left,
                 n_events, last, iwh, stdin_reads, stdout>>

\* the slideshow step: the time of the tick is added to the elapsed time,
\* and an interval that is reached moves the selection on
Slideshow ==
  /\ pc = "slideshow"
  /\ IF imv.slideshow_image_duration # 0
     THEN LET elapsed == imv.slideshow_time_elapsed + dt
              due == SlideshowDue(elapsed, imv.slideshow_image_duration)
          IN  /\ imv' = [imv EXCEPT
                           !.need_redraw = TRUE,
                           !.slideshow_time_elapsed =
                              IF due THEN 0 ELSE elapsed]
              /\ nav' = IF due THEN imv_navigator_select_rel(nav, 1)
                        ELSE nav
              /\ tick' = IF due THEN [tick EXCEPT !.advances = @ + 1]
                         ELSE tick
     ELSE UNCHANGED <<imv, nav, tick>>
  /\ dt' = 0
  /\ pc' = "render"
  /\ UNCHANGED <<argv, argi, data_from_stdin, loader, view, feed_left,
                 n_events, last, iwh, stdin_reads, stdout>>

\* render_window leaving the flag as it found it
render_window_keeps_flag(i) == i

\* render_window ends by clearing the flag
render_window(i) == [i EXCEPT !.need_redraw = FALSE]

Render ==
  /\ pc = "render"
  /\ view' = imv_viewport_needs_redraw(view)
  /\ IF view.redraw \/ imv.need_redraw
     THEN /\ imv' = render_window([imv EXCEPT !.need_redraw = TRUE])
          /\ tick' = [tick EXCEPT !.renders = @ + 1]
     ELSE UNCHANGED <<imv, tick>>
  /\ pc' = "stdin"
  /\ UNCHANGED <<argv, argi, data_from_stdin, nav, loader, dt, feed_left,
                 n_events, last, iwh, stdin_reads, stdout>>

\* what poll and fgets may report to check_stdin_for_paths
PollOutcomes == {"timeout", "poll_error", "read_error", "eof", "line"}

\* the session flags after poll reported `outcome`
StdinPolled(outcome) ==
  CASE outcome \in {"timeout", "poll_error"} -> [imv EXCEPT !.quit = TRUE]
    [] outcome = "eof" -> [imv EXCEPT !.paths_from_stdin = FALSE]
    [] OTHER -> imv

\* the poll of the feed reading a line and adding no path
check_stdin_for_paths_drops(outcome) ==
  /\ pc = "stdin"
  /\ imv.paths_from_stdin
  /\ IF outcome = "line"
     THEN /\ feed_left > 0
          /\ feed_left' = feed_left - 1
          /\ \E line \in FeedLines :
               tick' = [NewTick EXCEPT !.line = Some(line)]
          /\ UNCHANGED <<nav, imv>>
     ELSE /\ imv' = StdinPolled(outcome)
          /\ tick' = NewTick
          /\ UNCHANGED <<nav, feed_left>>
  /\ pc' = "events"
  /\ UNCHANGED <<argv, argi, data_from_stdin, loader, view, dt, n_events,
                 last, iwh, stdin_reads, stdout>>

\* the poll of the feed at the end of a tick: a line that is not empty is
\* added to the navigator
check_stdin_for_paths(outcome) ==
  /\ pc = "stdin"
  /\ imv.paths_from_stdin
  /\ IF outcome = "line"
     THEN /\ feed_left > 0
          /\ feed_left' = feed_left - 1
          /\ \E line \in FeedLines :
               /\ tick' = [NewTick EXCEPT !.line = Some(line)]
               /\ IF line # ""
                  THEN /\ nav' = imv_add_path(nav, line)
                       /\ imv' = [imv EXCEPT !.need_redraw = TRUE]
                  ELSE UNCHANGED <<nav, imv>>
     ELSE /\ imv' = StdinPolled(outcome)
          /\ tick' = NewTick
          /\ UNCHANGED <<nav, feed_left>>
  /\ pc' = "events"
  /\ UNCHANGED <<argv, argi, data_from_stdin, loader, view, dt, n_events,
                 last, iwh, stdin_reads, stdout>>

\* SDL_Delay(10)
Delay ==
  /\ pc = "stdin"
  /\ ~imv.paths_from_stdin
  /\ pc' = "events"
  /\ tick' = NewTick
  /\ UNCHANGED <<argv, argi, data_from_stdin, imv, nav, loader, view, dt,
                 feed_left, n_events, last, iwh, stdin_reads, stdout>>

\* the list printed whether or not -l was given
ListAtExit_unconditional ==
  /\ pc = "exit"
  /\ stdout' = stdout \o nav.paths
  /\ pc' = "done"
  /\ UNCHANGED <<argv, argi, data_from_stdin, imv, nav, loader, view, dt,
                 feed_left, n_events, last, iwh, stdin_reads, tick>>

\* after the loop: with -l, puts of every path of the navigator
ListAtExit ==
  /\ pc = "exit"
  /\ stdout' = IF imv.list_at_exit THEN stdout \o nav.paths ELSE stdout
  /\ pc' = "done"
  /\ UNCHANGED <<argv, argi, data_from_stdin, imv, nav, loader, view, dt,
                 feed_left, n_events, last, iwh, stdin_reads, tick>>

LoopPcs ==
  {"events", "errors", "wrap", "changed", "image", "rescale", "time",
   "slideshow", "render", "stdin"}

\* the size of the image a request decodes to: supplied bytes are decoded
\* from memory, otherwise the path is opened
DecodedDims(req) ==
  ImageDims(IF req.data # None THEN Sentinel ELSE req.path)

\* the decode thread finishes the request: a first frame, or a failure
Decode ==
  /\ pc \in LoopPcs
  /\ loader.req # None
  /\ \/ \E anim \in BOOLEAN :
          loader' = [loader EXCEPT
                       !.req = None,
                       !.anim = anim,
                       !.dims = DecodedDims(loader.req[1]),
                       !.bmp = Some([is_new_image |-> TRUE,
                                     dims |-> DecodedDims(loader.req[1])])]
     \/ loader' = [loader EXCEPT !.req = None,
                                 !.err = Some(loader.req[1].path)]
  /\ UNCHANGED <<pc, argv, argi, data_from_stdin, imv, nav, view, dt,
                 feed_left, n_events, last, iwh, stdin_reads, stdout, tick>>

\* the steps of the thread that runs imv_parse_args and imv_run, other than
\* the handling of input events
Interactive ==
  \/ ParseOptions
  \/ ParsePath
  \/ ParseStdin
  \/ RunStart
  \/ EventsDone
  \/ GetError
  \/ CheckWrapped
  \/ PollChanged
  \/ GetImage
  \/ Rescale
  \/ TimePassed
  \/ Slideshow
  \/ Render
  \/ \E outcome \in PollOutcomes : check_stdin_for_paths(outcome)
  \/ Delay
  \/ ListAtExit

\* an input event is taken from SDL's queue: outside command mode one of
\* the events the frame loop can tell apart, in command mode typed text, a
\* key of command mode or another key
Input ==
  \/ /\ imv.input_buffer = None
     /\ \E e \in LoopEvents : PollEvent(e)
  \/ /\ imv.input_buffer # None
     /\ \E e \in EntryEvents : PollEvent(e)

Next ==
  \/ Interactive
  \/ Input
  \/ Decode

Spec == Init /\ [][Next]_vars

----------------------------------------------------------------------------
(* A session nobody touches: no input events arrive.  The thread of        *)
(* imv_run is a loop that keeps running, and the decode thread finishes    *)
(* every request, so both are weakly fair.                                 *)

NextIdle ==
  \/ Interactive
  \/ Decode

FairSpec ==
  /\ Init
  /\ [][NextIdle]_vars
  /\ WF_vars(Interactive)
  /\ WF_vars(Decode)

----------------------------------------------------------------------------
(* Command mode with a typed line.  The session is in the frame loop, the  *)
(* command key has been pressed and the user has typed a line; what is     *)
(* left is to edit, cancel or submit it.                                   *)

\* lines the user may have typed
CmdLines ==
  { W_select_rel \o <<" ", "x">>,
    W_select_rel \o <<" ", "1", "x">>,
    W_select_rel,
    W_select_rel \o <<" ", "1", " ", "2">>,
    L_select_rel_1,
    W_pan \o <<" ", "5">>,
    W_pan \o <<" ", "x", " ", "y">>,
    L_pan_50_0,
    W_remove,
    W_quit,
    <<"n">>,
    <<"z">> }

\* sessions in command mode: one fed from stdin whose only image failed to
\* decode, and slideshows over two images at several points of the
\* interval
CmdSessions ==
  { [argv |-> WithOptions(Args(FALSE, FALSE, 0, <<>>), TRUE, SCALING_DOWN),
     argi |-> 1,
     nav |-> imv_navigator_create,
     loader |-> imv_loader_create,
     iwh |-> <<0, 0>>,
     view |-> [imv_viewport_scale_to_actual(imv_viewport_create)
                 EXCEPT !.redraw = FALSE],
     imv |-> [imv_create EXCEPT !.paths_from_stdin = TRUE,
                                !.scaling_mode = SCALING_DOWN,
                                !.list_at_exit = TRUE,
                                !.need_redraw = FALSE,
                                !.need_rescale = FALSE]] }
  \cup
  { [argv |-> WithOptions(Args(FALSE, TRUE, 2000, <<"a", "a">>),
                          TRUE, SCALING_FULL),
     argi |-> 3,
     nav |-> [imv_navigator_create EXCEPT !.paths = <<"a", "a">>],
     loader |-> [imv_loader_create EXCEPT !.dims = ImageDims("a")],
     iwh |-> ImageDims("a"),
     view |-> [imv_viewport_create EXCEPT !.redraw = FALSE],
     imv |-> [imv_create EXCEPT !.cycle_input = FALSE,
                                !.list_at_exit = TRUE,
                                !.slideshow_image_duration = 2000,
                                !.slideshow_time_elapsed = elapsed,
                                !.need_redraw = FALSE,
                                !.need_rescale = FALSE]] :
       elapsed \in {0, 600, 1500} }

InitCmd ==
  \E C \in CmdSessions, line \in CmdLines :
    /\ pc = "events"
    /\ argv = C.argv
    /\ argi = C.argi
    /\ data_from_stdin = FALSE
    /\ imv = [C.imv EXCEPT !.input_buffer = Some(line)]
    /\ nav = C.nav
    /\ loader = C.loader
    /\ view = C.view
    /\ dt = 0
    /\ feed_left = IF C.imv.paths_from_stdin THEN 0 ELSE MaxFeedLines
    /\ n_events = 1
    /\ last = NoEvent
    /\ iwh = C.iwh
    /\ stdin_reads = 0
    /\ stdout = <<>>
    /\ tick = NewTick

NextCmd == \E e \in KeyEvents \cup TextEvents : PollEvent(e)

SpecCmd == InitCmd /\ [][NextCmd]_vars

----------------------------------------------------------------------------
(* Text entry.  The session is in the frame loop and the command key has   *)
(* been pressed: text arrives and Backspace takes characters away, up to   *)
(* MaxBufLen characters beyond the bytes allocated for the buffer.         *)

EntryBound == command_buffer_len + MaxBufLen

TypingEvents ==
  TextEvents \cup {[Event("KEYDOWN") EXCEPT !.sym = "BACKSPACE"]}

InitEntry ==
  \E C \in CmdSessions :
    /\ pc = "events"
    /\ argv = C.argv
    /\ argi = C.argi
    /\ data_from_stdin = FALSE
    /\ imv = [C.imv EXCEPT !.input_buffer = Some(<<>>)]
    /\ nav = C.nav
    /\ loader = C.loader
    /\ view = C.view
    /\ dt = 0
    /\ feed_left = IF C.imv.paths_from_stdin THEN 0 ELSE MaxFeedLines
    /\ n_events = 1
    /\ last = NoEvent
    /\ iwh = C.iwh
    /\ stdin_reads = 0
    /\ stdout = <<>>
    /\ tick = NewTick

NextEntry == \E e \in TypingEvents : PollEventTyping(e, EntryBound)

SpecEntry == InitEntry /\ [][NextEntry]_vars

----------------------------------------------------------------------------
(* Properties.                                                             *)

\* the session's state that key bindings and commands act on
Acted == <<imv, nav, view, loader>>

\* C1: while a command buffer exists, a key-down other than Escape, Return
\* and Backspace has no effect at all: no binding runs, no command is
\* executed, and the buffer stays as it is: handle_event returns the
\* session it was given, for every key, modifier and repeat flag.
C1_EntryKeysBypassBindings ==
  (pc = "events" /\ imv.input_buffer # None) =>
    \A e \in KeyEvents :
      e.sym \notin EntryKeys => handle_event(Session, e) = {Session}

\* a key that has a binding outside command mode was pressed in command
\* mode, and the session goes on in command mode
C1_Witness ==
  /\ pc = "events"
  /\ last.kind = "ENTRY_BOUND_KEY"
  /\ imv.input_buffer # None
  /\ ~imv.quit

\* C2: in command mode Return executes the buffered line exactly once, as
\* it is when Return is pressed, and discards the buffer; Escape discards
\* the buffer and executes nothing; after either the session is outside
\* command mode.  A buffer comes into existence only by Shift+';' pressed
\* outside command mode, and it starts empty.
C2_LeavingCommandMode ==
  /\ [][(pc = "events" /\ imv.input_buffer # None) =>
          \A e \in KeyEvents :
            /\ (e.sym = "RETURN" /\ PollEvent(e)) =>
                 /\ last'.execs = <<imv.input_buffer[1]>>
                 /\ imv'.input_buffer = None
                 /\ pc' = "events"
            /\ (e.sym = "ESCAPE" /\ PollEvent(e)) =>
                 /\ last'.execs = <<>>
                 /\ imv'.input_buffer = None
                 /\ pc' = "events"
                 /\ <<nav, view, loader>>' = <<nav, view, loader>>]_vars
  /\ [][(imv.input_buffer = None /\ imv'.input_buffer # None) =>
          /\ imv'.input_buffer = Some(<<>>)
          /\ \E e \in KeyEvents :
               /\ e.sym = "SEMICOLON"
               /\ "SHIFT" \in e.mods
               /\ PollEvent(e)]_vars

\* the occurrences of x in the sequence s
Occurrences(s, x) == Cardinality({i \in 1..Len(s) : s[i] = x})

\* t is s without its first x (s itself when x does not occur in s)
WithoutFirst(s, x, t) ==
  IF Occurrences(s, x) = 0 THEN t = s
  ELSE \E i \in 1..Len(s) :
         /\ s[i] = x
         /\ \A j \in 1..(i - 1) : s[j] # x
         /\ t = SubSeq(s, 1, i - 1) \o SubSeq(s, i + 1, Len(s))

\* the index of a navigator is in the list, or 0 on an empty list
ValidCursor(n) ==
  IF n.paths = <<>> THEN n.cur = 0 ELSE n.cur \in 0..(Len(n.paths) - 1)

\* C3: when the loader reports a failure for X, one occurrence of X (the
\* first, if X is still listed) leaves the list and the index stays valid;
\* the step does not set the quit flag and the tick goes on; the image data
\* read from stdin is released when X is "-" and kept otherwise.
C3_DecodeFailureEvicts ==
  [][(pc = "errors" /\ loader.err # None /\ pc' # pc) =>
       LET X == loader.err[1]
       IN  /\ WithoutFirst(nav.paths, X, nav'.paths)
           /\ ValidCursor(nav')
           /\ imv'.quit = imv.quit
           /\ pc' = "wrap"
           /\ loader'.err = None
           /\ IF X = Sentinel
              THEN /\ imv'.stdin_image_data = None
                   /\ imv'.stdin_image_data_len = 0
              ELSE /\ imv'.stdin_image_data = imv.stdin_image_data
                   /\ imv'.stdin_image_data_len =
                        imv.stdin_image_data_len]_vars

\* the image read from stdin failed to decode: "-" has left the list and
\* the data is released, and the session goes on
C3_Witness ==
  /\ pc = "wrap"
  /\ stdin_reads = 1
  /\ Occurrences(argv.paths, Sentinel) = 1
  /\ Occurrences(nav.paths, Sentinel) = 0
  /\ imv.stdin_image_data = None
  /\ last.kind = "none"
  /\ n_events = 0
  /\ ~imv.quit

\* the list is empty and no paths are fed from stdin
Exhausted ==
  /\ pc \in LoopPcs
  /\ nav.paths = <<>>
  /\ ~imv.paths_from_stdin

\* C4: whenever the list is empty while the frame loop runs and no paths
\* are fed from stdin, the session eventually quits; this covers the list
\* that was emptied while the feed was active, once the feed has ended.
C4_ExhaustionQuits == Exhausted ~> (imv.quit \/ pc \notin LoopPcs)

\* C5: a poll of stdin that times out (no line within the wait) does not
\* set the quit flag and leaves the session as it is.
C5_IdlePollKeepsSession ==
  [][check_stdin_for_paths("timeout") => Acted' = Acted]_vars

\* C6: when the wrapped latch is set at the wrap check, the session ends
\* there if and only if cycling is disabled, and it ends before the tick
\* has requested a load or rendered; without the latch the wrap check never
\* ends the session, and with cycling enabled the loop ends only by the
\* quit flag.
C6_WrapEndsSession ==
  /\ [][(pc = "wrap" /\ pc' # pc) =>
          /\ nav.wrapped => (pc' = "exit" <=> ~imv.cycle_input)
          /\ ~nav.wrapped => pc' # "exit"
          /\ pc' = "exit" =>
               /\ tick.loads = 0
               /\ tick.renders = 0
               /\ loader' = loader]_vars
  /\ []((pc = "exit" /\ imv.cycle_input) => imv.quit)

\* the loop was left by the wrap check: nobody set the quit flag
C6_Witness ==
  /\ pc = "exit"
  /\ ~imv.quit
  /\ ~imv.cycle_input
  /\ tick.loads = 0
  /\ tick.renders = 0

\* C7: the remove key pressed outside command mode on an empty list is a
\* no-op: the session stays as it is and the process goes on.
C7_RemoveOnEmptyIsNoOp ==
  [][(pc = "events" /\ imv.input_buffer = None /\ nav.paths = <<>>) =>
       \A e \in KeyEvents :
         (e.sym = "x" /\ ~e.repeat /\ PollEvent(e)) =>
            /\ pc' = "events"
            /\ Acted' = Acted]_vars

\* a token that is a decimal number with an optional sign
IsNumber(tok) ==
  LET digits == IF tok # <<>> /\ Head(tok) \in {"-", "+"} THEN Tail(tok)
                ELSE tok
  IN  /\ digits # <<>>
      /\ \A i \in 1..Len(digits) : digits[i] \in Digits

\* a pan or select_rel line with the wrong number of arguments or with an
\* argument that is not a number
Malformed(line) ==
  LET tokens == Split(line)
  IN  /\ tokens # <<>>
      /\ tokens[1] \in {W_pan, W_select_rel}
      /\ \/ Len(tokens) # (IF tokens[1] = W_pan THEN 3 ELSE 2)
         \/ \E i \in 2..Len(tokens) : ~IsNumber(tokens[i])

\* C8: submitting a malformed pan or select_rel line changes nothing but
\* the end of command mode: list, index, latches, pan offset, zoom, quit
\* flag and the slideshow's elapsed time stay as they are.  (A redraw the
\* viewport may ask for is not counted as a change.)
C8_MalformedLineDropped ==
  [][(pc = "events" /\ imv.input_buffer # None
        /\ Malformed(imv.input_buffer[1])) =>
       \A e \in KeyEvents :
         (e.sym = "RETURN" /\ PollEvent(e)) =>
            /\ pc' = "events"
            /\ <<nav, loader>>' = <<nav, loader>>
            /\ view' = [view EXCEPT !.redraw = view'.redraw]
            /\ imv' = [imv EXCEPT !.text_input = FALSE,
                                  !.input_buffer = None,
                                  !.need_redraw = TRUE]]_vars

\* C9: with a nonzero interval the slideshow step adds the tick's time to
\* the elapsed time; when the sum reaches the interval the index moves on
\* by one (wrapping), once, and the elapsed time becomes 0, dropping the
\* overshoot: at 2000 ms, 1500 ms elapsed and a tick of 600 ms give one
\* advance and 0.  With an interval of 0 nothing moves.
C9_SlideshowAdvance ==
  /\ [][(pc = "slideshow" /\ pc' # pc) =>
          LET D == imv.slideshow_image_duration
              E == imv.slideshow_time_elapsed + dt
              n == Len(nav.paths)
          IN  /\ D = 0 =>
                   /\ nav' = nav
                   /\ imv' = imv
                   /\ tick'.advances = tick.advances
              /\ (D # 0 /\ ~ULongGe(E, D)) =>
                   /\ nav' = nav
                   /\ imv'.slideshow_time_elapsed = E
                   /\ tick'.advances = tick.advances
              /\ (D # 0 /\ ULongGe(E, D)) =>
                   /\ nav'.paths = nav.paths
                   /\ n > 0 => nav'.cur = (nav.cur + 1) % n
                   /\ imv'.slideshow_time_elapsed = 0
                   /\ tick'.advances = tick.advances + 1
              /\ (D = 2000 /\ imv.slideshow_time_elapsed = 1500 /\ dt = 600) =>
                   /\ imv'.slideshow_time_elapsed = 0
                   /\ tick'.advances = 1]_vars
  /\ [](tick.advances <= 1)

\* a slideshow of 2000 ms has just moved on from the first image to the
\* second, and counts from 0 again
C9_Witness ==
  /\ pc = "render"
  /\ tick.advances = 1
  /\ imv.slideshow_image_duration = 2000
  /\ imv.slideshow_time_elapsed = 0
  /\ nav.cur = 1
  /\ nav.changed

\* C10: stdin has one role: a session that reads paths from stdin holds no
\* image data read from stdin, stdin is read for image data at most once,
\* and a command line naming "-" twice is refused by the parsing of the
\* second "-", after the one read.
C10_StdinOneRole ==
  /\ imv.paths_from_stdin =>
       /\ imv.stdin_image_data = None
       /\ imv.stdin_image_data_len = 0
  /\ stdin_reads <= 1
  /\ (Occurrences(argv.paths, Sentinel) >= 2
        /\ pc \notin {"parse_opts", "parse_paths"}) =>
       /\ pc = "rejected"
       /\ stdin_reads = 1
       /\ Occurrences(nav.paths, Sentinel) = 1

\* "- -" was refused after one read of stdin
C10_Witness ==
  /\ pc = "rejected"
  /\ Occurrences(argv.paths, Sentinel) = 2
  /\ stdin_reads = 1
  /\ data_from_stdin

\* C11: every way out of the frame loop other than a crash leads to the
\* step after the loop, and that step appends to the standard output exactly
\* the paths the navigator holds then, in order, when list_at_exit is set,
\* and nothing when it is not.
C11_ListAtExit ==
  /\ [][(pc \in LoopPcs /\ pc' \notin LoopPcs) =>
          pc' \in {"exit", "crashed"}]_vars
  /\ [][pc = "exit" =>
          /\ pc' = "done"
          /\ stdout' = stdout \o (IF imv.list_at_exit THEN nav.paths
                                  ELSE <<>>)]_vars

\* the list was printed after a removal left one of the two paths named on
\* the command line
C11_Witness ==
  /\ pc = "done"
  /\ imv.list_at_exit
  /\ argv.paths = <<"a", "a">>
  /\ nav.paths = <<"a">>
  /\ stdout = nav.paths

\* C12: the quit flag is never reset, and once it is set inside the frame
\* loop the loop stands at the draining of events, handles no further event
\* and runs no later step of this or a later tick: the session, the
\* navigator, the viewport, the counters of the tick and the output stay as
\* they are, only the decode thread may still finish its request, and the
\* next step of the loop is the one after it.
C12_QuitStopsTheTick ==
  /\ [][imv.quit => imv'.quit]_vars
  /\ [][(imv.quit /\ pc \in LoopPcs) =>
          /\ pc = "events"
          /\ pc' \in {"events", "exit"}
          /\ UNCHANGED <<imv, nav, view, tick, stdout, n_events, feed_left>>
          /\ last' \in {last, NoEvent}
          /\ loader' # loader =>
                /\ loader.req # None
                /\ loader'.req = None]_vars

\* the window was closed before any other event of the tick was handled
C12_Witness ==
  /\ pc = "events"
  /\ imv.quit
  /\ last = [kind |-> "QUIT", execs |-> <<W_quit>>]
  /\ n_events < MaxEvents
  /\ nav.paths # <<>>

\* C13: the step that polls the changed latch issues a load exactly when the
\* latch is set and the navigator has a selection; the request then names
\* that selection and the viewport is playing afterwards.  No other step
\* places a request, so a tick issues at most one load, and none when the
\* latch was not set.
C13_LoadIffChanged ==
  /\ [][(pc = "changed" /\ pc' # "changed") =>
          LET sel == imv_navigator_selection(nav)
              issued == tick'.loads = tick.loads + 1
          IN  /\ issued <=> (nav.changed /\ sel # None)
              /\ issued =>
                    /\ loader'.req # None
                    /\ loader'.req[1].path = sel[1]
                    /\ view'.playing
              /\ ~issued => loader' = loader /\ view' = view]_vars
  /\ [][(loader'.req # None /\ loader'.req # loader.req) =>
          (pc = "changed" /\ tick'.loads = tick.loads + 1)]_vars
  /\ [][tick'.loads # tick.loads =>
          (pc \in {"changed", "stdin"} /\ tick'.loads \in {0, 1})]_vars

\* after a navigation to the second path the tick has issued its load, for
\* that path
C13_Witness ==
  /\ pc = "image"
  /\ tick.loads = 1
  /\ nav.cur = 1
  /\ nav.paths = <<"a", Sentinel>>
  /\ loader.req # None
  /\ loader.req[1].path = Sentinel
  /\ view.playing

\* C14: a load request for a path other than "-" carries no image data and
\* no length, whatever the session holds.
C14_RawBytesOnlyForSentinel ==
  (loader.req # None /\ loader.req[1].path # Sentinel) =>
    /\ loader.req[1].data = None
    /\ loader.req[1].len = 0

\* C15: the image step that takes over a bitmap sets need_redraw, sets
\* need_rescale only when the bitmap is a new image (a pending need_rescale
\* stays), and leaves the viewport alone; the rescale step of a tick that
\* took over a further frame of the animation on display with no rescale
\* pending leaves the fit, the zoom and the pan of the viewport as they are.
C15_FrameKeepsZoomAndPan ==
  /\ [][(pc = "image" /\ pc' = "rescale" /\ loader.bmp # None) =>
          /\ imv'.need_redraw
          /\ imv'.need_rescale <=>
                (imv.need_rescale \/ loader.bmp[1].is_new_image)
          /\ view' = view]_vars
  /\ [][(pc = "image" /\ pc' = "rescale" /\ loader.bmp = None) =>
          UNCHANGED <<imv, view>>]_vars
  /\ [][(pc = "rescale" /\ pc' = "time" /\ tick.got = "frame"
            /\ ~imv.need_rescale) =>
          /\ view'.zoom = view.zoom
          /\ view'.fit = view.fit
          /\ view'.x = view.x
          /\ view'.y = view.y]_vars

\* a further frame of the animation was taken over and the rescale step has
\* run; the step the user zoomed in is still there
C15_Witness ==
  /\ pc = "time"
  /\ tick.got = "frame"
  /\ ~imv.need_rescale
  /\ imv.need_redraw
  /\ view.zoom = 1

\* C16: the rescale step of a tick with need_rescale set scales to actual
\* size in the mode SCALING_NONE, to the window in the mode SCALING_FULL,
\* and in the mode SCALING_DOWN to actual size exactly when the window is
\* wider and higher than the image last taken over; without need_rescale it
\* leaves the viewport alone.  need_rescale is false after the step.
C16_FitByScalingMode ==
  [][(pc = "rescale" /\ pc' = "time") =>
      /\ ~imv'.need_rescale
      /\ view' =
           IF ~imv.need_rescale THEN view
           ELSE CASE imv.scaling_mode = SCALING_NONE ->
                       imv_viewport_scale_to_actual(view)
                  [] imv.scaling_mode = SCALING_FULL ->
                       imv_viewport_scale_to_window(view)
                  [] imv.scaling_mode = SCALING_DOWN ->
                       IF WindowWidth > iwh[1] /\ WindowHeight > iwh[2]
                       THEN imv_viewport_scale_to_actual(view)
                       ELSE imv_viewport_scale_to_window(view)]_vars

\* in the mode SCALING_DOWN an image narrower but taller than the window was
\* taken over and the viewport was scaled to the window
C16_Witness ==
  /\ pc = "time"
  /\ tick.got = "new"
  /\ imv.scaling_mode = SCALING_DOWN
  /\ iwh[1] < WindowWidth
  /\ iwh[2] > WindowHeight
  /\ view.fit = "window"
  /\ ~imv.need_rescale

\* C17: the time step hands time to the loader exactly when the viewport is
\* playing, and then the time since the last tick capped at 100 ms: what
\* the loader is handed never exceeds 100 ms, and while the viewport is
\* paused the loader is handed nothing and stays as it is.
C17_PlayTimeCapped ==
  /\ [][(pc = "time" /\ pc' = "slideshow") =>
          /\ tick.fed = None
          /\ IF view.playing
             THEN tick'.fed = Some(Min(dt', 100))
             ELSE tick'.fed = None /\ loader' = loader]_vars
  /\ [][tick'.fed # tick.fed => pc \in {"time", "stdin", "changed"}]_vars
  /\ [](tick.fed # None => tick.fed[1] <= 100)

\* a playing viewport with a tick shorter than the cap: the loader was
\* handed the whole of it
C17_Witness ==
  /\ pc = "slideshow"
  /\ view.playing
  /\ dt = ShortDt
  /\ tick.fed = Some(ShortDt)
  /\ loader.anim

\* C18: the render step renders exactly when need_redraw is set or the
\* viewport reports that it needs a redraw, and need_redraw is false after
\* a render; nothing but a render clears need_redraw, so a flag set by an
\* event, a bitmap, the slideshow or a path from the feed stays until the
\* render step of the next tick that reaches it, and no tick goes past its
\* render step with the flag set.
C18_RenderIffRedrawNeeded ==
  /\ [][(pc = "render" /\ pc' = "stdin") =>
          LET rendered == tick'.renders = tick.renders + 1
          IN  /\ rendered <=> (imv.need_redraw \/ view.redraw)
              /\ ~rendered => tick'.renders = tick.renders
              /\ ~imv'.need_redraw
              /\ ~view'.redraw]_vars
  /\ [][(imv.need_redraw /\ ~imv'.need_redraw) =>
          (pc = "render" /\ tick'.renders = tick.renders + 1)]_vars
  /\ [][tick'.renders # tick.renders =>
          pc \in {"render", "stdin", "changed"}]_vars
  /\ [](pc = "stdin" => ~imv.need_redraw)

\* the slideshow advanced in this tick, setting need_redraw, and the render
\* step of the tick has rendered and cleared it
C18_Witness ==
  /\ pc = "stdin"
  /\ tick.advances = 1
  /\ tick.renders = 1
  /\ ~imv.need_redraw

\* C19: outside command mode the 't' key without Shift or Caps Lock makes
\* the interval 1000 ms longer, and with one of them 1000 ms shorter when
\* it is at least 1000 ms and leaves it otherwise; neither wraps around,
\* and an interval other than 0 becomes 0 only from 1000 ms.
C19_IntervalKeys ==
  (pc = "events" /\ imv.input_buffer = None /\ ~imv.quit) =>
    \A e \in {k \in KeyEvents : k.sym = "t"} :
      \A T \in handle_event(Session, e) :
        LET D == imv.slideshow_image_duration
            R == T.imv.slideshow_image_duration
        IN  /\ IF e.mods \cap {"SHIFT", "CAPS"} = {}
               THEN R = D + 1000 /\ ULongGe(R, D)
               ELSE IF ULongGe(D, 1000)
               THEN R = D - 1000 /\ ULongGe(D, R)
               ELSE R = D
            /\ (R = 0 /\ D # 0) => D = 1000

C22_ElapsedBelowInterval ==
  [][(pc = "slideshow" /\ pc' = "render"
        /\ imv.slideshow_image_duration # 0) =>
      /\ imv'.slideshow_image_duration = imv.slideshow_image_duration
      /\ ~ULongGe(imv'.slideshow_time_elapsed,
                  imv'.slideshow_image_duration)]_vars

\* the interval of 2000 ms was made 1000 ms with 1500 ms or more elapsed;
\* the slideshow step has moved on and counts from 0
C22_Witness ==
  /\ pc = "render"
  /\ argv.t = 2000
  /\ imv.slideshow_image_duration = 1000
  /\ tick.advances = 1
  /\ imv.slideshow_time_elapsed = 0

\* lines that name each command and alias, with and without arguments
C23_Lines ==
  CmdLines \cup
  { L_select_rel_m1, W_next, W_previous, <<"p">>,
    W_next \o <<" ", "2">>,
    W_remove \o <<" ", "x">>,
    L_pan_0_50,
    W_zoom \o <<" ", "1">>,
    W_fullscreen,
    W_overlay }

\* the tokens the handler of a line receives
C23_Args(line) ==
  LET tokens == Split(line)
      alias == Alias(tokens[1])
  IN  IF alias = None THEN tokens ELSE Split(alias[1]) \o Tail(tokens)

\* keys bound to zoom, pan, fullscreen, overlay and scaling
C23_ViewKeys ==
  {"EQUALS", "PLUS", "i", "UP", "MINUS", "o", "DOWN", "j", "k", "h", "l",
   "f", "d", "s", "r", "a", "c"}

\* C23: a select_rel command with one argument (typed, through an alias,
\* or through the prev and next keys) and every remove command leave the
\* slideshow's elapsed time at 0; the pan, zoom, fullscreen, overlay and
\* scaling commands and keys leave the elapsed time as it was.
C23_NavigationRestartsCountdown ==
  (pc = "events" /\ ~imv.quit) =>
    /\ \A line \in C23_Lines : \A T \in imv_command_exec(Session, line) :
         LET args == C23_Args(line)
         IN  /\ (args[1] = W_select_rel /\ Len(args) = 2) =>
                  T.imv.slideshow_time_elapsed = 0
             /\ args[1] = W_remove =>
                  T.imv.slideshow_time_elapsed = 0
             /\ args[1] \in {W_pan, W_zoom, W_fullscreen, W_overlay} =>
                  T.imv.slideshow_time_elapsed = imv.slideshow_time_elapsed
    /\ imv.input_buffer = None =>
         \A e \in KeyEvents \cup OtherEvents :
           \A T \in handle_event(Session, e) :
             /\ e.sym \in {"LEFT", "RIGHT", "LEFTBRACKET", "RIGHTBRACKET"} =>
                  T.imv.slideshow_time_elapsed = 0
             /\ (e.sym = "x" /\ ~e.repeat) =>
                  T.imv.slideshow_time_elapsed = 0
             /\ (\/ e.sym \in C23_ViewKeys
                 \/ e.type \in {"MOUSEWHEEL", "MOUSEMOTION"}) =>
                  T.imv.slideshow_time_elapsed = imv.slideshow_time_elapsed

\* C24: in command mode the buffer never holds more than the 1023
\* characters that fit the 1024 bytes allocated, whatever text arrives and
\* however often Backspace is pressed; Backspace on an empty buffer leaves
\* it empty.
C24_BufferWithinCapacity ==
  /\ [](imv.input_buffer # None =>
          Len(imv.input_buffer[1]) + 1 <= command_buffer_len)
  /\ [][(pc = "events" /\ imv.input_buffer = Some(<<>>)) =>
          \A e \in TypingEvents :
            (e.sym = "BACKSPACE" /\ PollEventTyping(e, EntryBound)) =>
               /\ pc' = "events"
               /\ imv'.input_buffer = Some(<<>>)]_vars

====
